---- MODULE Spec2Model ----
(***************************************************************************)
(* The chapter list of ChapterList.tsx: manual adds, drag reorders, the    *)
(* asynchronous bulk import of a folder of text files, and the grouping    *)
(* of the list for display.  Strings are sequences of one-character        *)
(* strings so that the regular expressions, toLowerCase, includes, split   *)
(* and localeCompare of the source are computed and not assumed.           *)
(***************************************************************************)
EXTENDS Integers, Sequences, FiniteSets, TLC

(* ------------------------------------------------------------------ *)
(* Strings                                                              *)
(* ------------------------------------------------------------------ *)

Digits == <<"0", "1", "2", "3", "4", "5", "6", "7", "8", "9">>

UpperCase == <<"A", "B", "C", "D", "E", "F", "G", "H", "I", "J", "K", "L", "M",
               "N", "O", "P", "Q", "R", "S", "T", "U", "V", "W", "X", "Y", "Z">>

LowerCase == <<"a", "b", "c", "d", "e", "f", "g", "h", "i", "j", "k", "l", "m",
               "n", "o", "p", "q", "r", "s", "t", "u", "v", "w", "x", "y", "z">>

\* Primary collation order of the characters the model uses (the root
\* collation localeCompare applies: white space, punctuation, digits, letters).
Collation == <<" ", "_", "-", ",", ".", "/">> \o Digits \o LowerCase

IndexOf(seq, c) == IF \E i \in 1..Len(seq) : seq[i] = c
                   THEN CHOOSE i \in 1..Len(seq) : seq[i] = c
                   ELSE 0

IsDigit(c) == IndexOf(Digits, c) # 0

\* \s of the regular expressions, over the characters the model uses
IsSpace(c) == c = " "

\* String.prototype.toLowerCase, one character
LowerChar(c) == IF IndexOf(UpperCase, c) # 0 THEN LowerCase[IndexOf(UpperCase, c)] ELSE c

\* toLowerCase that leaves the string as it is
toLowerCaseNone(s) == s

toLowerCase(s) == [i \in 1..Len(s) |-> LowerChar(s[i])]

\* s has t at position i (1-based)
HasAt(s, i, t) == /\ i >= 1
                  /\ i + Len(t) - 1 <= Len(s)
                  /\ \A k \in 1..Len(t) : s[i + k - 1] = t[k]

\* String.prototype.includes
includes(s, t) == \E i \in 1..(Len(s) + 1) : HasAt(s, i, t)

\* length of the longest run of digits of s that starts at position i
RECURSIVE DigitRun(_, _)
DigitRun(s, i) == IF i <= Len(s) /\ IsDigit(s[i]) THEN 1 + DigitRun(s, i + 1) ELSE 0

RECURSIVE SpaceRun(_, _)
SpaceRun(s, i) == IF i <= Len(s) /\ IsSpace(s[i]) THEN 1 + SpaceRun(s, i + 1) ELSE 0

\* parseInt of a string of decimal digits
RECURSIVE parseInt(_)
parseInt(d) == IF Len(d) = 0 THEN 0
               ELSE 10 * parseInt(SubSeq(d, 1, Len(d) - 1)) + (IndexOf(Digits, d[Len(d)]) - 1)

\* String.prototype.split('/')
RECURSIVE split(_)
split(s) == IF IndexOf(s, "/") = 0 THEN <<s>>
            ELSE <<SubSeq(s, 1, IndexOf(s, "/") - 1)>>
                     \o split(SubSeq(s, IndexOf(s, "/") + 1, Len(s)))

STR_BAB == <<"B", "A", "B", " ">>
STR_SEP == <<" ", "-", " ">>
STR_TXT == <<".", "t", "x", "t">>
STR_KATA_PENGANTAR == <<"k", "a", "t", "a", " ", "p", "e", "n", "g", "a", "n", "t", "a", "r">>
STR_PENUTUP == <<"p", "e", "n", "u", "t", "u", "p">>
TITLE_KATA_PENGANTAR == <<"K", "a", "t", "a", " ", "P", "e", "n", "g", "a", "n", "t", "a", "r">>
TITLE_BAB_BARU == <<"B", "a", "b", " ", "B", "a", "r", "u">>
TITLE_PENUTUP == <<"P", "e", "n", "u", "t", "u", "p">>

NoMatch == [matched |-> FALSE]

\* /BAB (\d+) - (.+)/ tried at position i of s
ChapterMatchAt(s, i) ==
    LET d == DigitRun(s, i + 4)
        t == i + 4 + d + 3
    IN  /\ HasAt(s, i, STR_BAB)
        /\ d >= 1
        /\ HasAt(s, i + 4 + d, STR_SEP)
        /\ t <= Len(s)

\* folderName.match(/BAB (\d+) - (.+)/): the leftmost match, groups 1 and 2
chapterMatch(folderName) ==
    IF \E i \in 1..Len(folderName) : ChapterMatchAt(folderName, i)
    THEN LET i == CHOOSE k \in 1..Len(folderName) :
                      /\ ChapterMatchAt(folderName, k)
                      /\ \A j \in 1..(k - 1) : ~ChapterMatchAt(folderName, j)
             d == DigitRun(folderName, i + 4)
         IN  [matched |-> TRUE,
              g1 |-> SubSeq(folderName, i + 4, i + 3 + d),
              g2 |-> SubSeq(folderName, i + 4 + d + 3, Len(folderName))]
    ELSE NoMatch

\* where group 2 of /(\d+\.\d+)\s+(.+)\.txt$/ starts when the match is tried at
\* position i of s, 0 when there is no match at i: \s+ takes the whole run of
\* white space and gives back what (.+) needs before the final ".txt"
SubChapterGroup2At(s, i) ==
    LET d1 == DigitRun(s, i)
        d2 == DigitRun(s, i + d1 + 1)
        p  == i + d1 + 1 + d2
        m  == SpaceRun(s, p)
        e  == Len(s) - 4
        q  == IF p + m <= e THEN p + m ELSE e
    IN  IF /\ d1 >= 1
           /\ HasAt(s, i + d1, <<".">>)
           /\ d2 >= 1
           /\ m >= 1
           /\ HasAt(s, Len(s) - 3, STR_TXT)
           /\ q > p
           /\ q <= e
        THEN q ELSE 0

\* file.name.match(/(\d+\.\d+)\s+(.+)\.txt$/): the leftmost match, group 2
subChapterMatch(name) ==
    IF \E i \in 1..Len(name) : SubChapterGroup2At(name, i) # 0
    THEN LET i == CHOOSE k \in 1..Len(name) :
                      /\ SubChapterGroup2At(name, k) # 0
                      /\ \A j \in 1..(k - 1) : SubChapterGroup2At(name, j) = 0
         IN  [matched |-> TRUE,
              g2 |-> SubSeq(name, SubChapterGroup2At(name, i), Len(name) - 4)]
    ELSE NoMatch

\* first position where the primary weights of a and b differ, 0 if none
PrimaryKey(s) == [i \in 1..Len(s) |-> IndexOf(Collation, LowerChar(s[i]))]

FirstDiff(a, b) ==
    LET n == IF Len(a) < Len(b) THEN Len(a) ELSE Len(b)
    IN  IF \E i \in 1..n : a[i] # b[i]
        THEN CHOOSE i \in 1..n : a[i] # b[i] /\ \A j \in 1..(i - 1) : a[j] = b[j]
        ELSE 0

\* a.localeCompare(b): -1, 0 or 1.  Primary weights decide first (a proper
\* prefix sorts first); on a primary tie the first difference of case decides,
\* lower case before upper case.
localeCompare(a, b) ==
    LET ka == PrimaryKey(a)
        kb == PrimaryKey(b)
        i  == FirstDiff(ka, kb)
        j  == FirstDiff(a, b)
    IN  IF i # 0 THEN (IF ka[i] < kb[i] THEN -1 ELSE 1)
        ELSE IF Len(a) # Len(b) THEN (IF Len(a) < Len(b) THEN -1 ELSE 1)
        ELSE IF j = 0 THEN 0
        ELSE IF a[j] = LowerChar(a[j]) THEN -1 ELSE 1

(* ------------------------------------------------------------------ *)
(* Chapters and the store                                               *)
(* ------------------------------------------------------------------ *)

\* the value a JavaScript array yields for an element it does not have
Undefined == [id |-> -1, title |-> <<>>, content |-> "", images |-> <<>>,
              type |-> "undefined", indentation |-> 0, lineSpacing |-> "1.5",
              subChapters |-> <<>>]

Ids(list) == [i \in 1..Len(list) |-> list[i].id]

Range(seq) == {seq[i] : i \in 1..Len(seq)}

NoDuplicates(seq) == \A i, j \in 1..Len(seq) : seq[i] = seq[j] => i = j

InsertAt(list, k, x) == SubSeq(list, 1, k) \o <<x>> \o SubSeq(list, k + 1, Len(list))

RemoveAt(list, k) == SubSeq(list, 1, k - 1) \o SubSeq(list, k + 1, Len(list))

\* number of chapters at the front of the list up to and including the last
\* one whose type is in the set types, 0 when there is none
LastOf(list, types) ==
    IF \E i \in 1..Len(list) : list[i].type \in types
    THEN CHOOSE i \in 1..Len(list) :
             /\ list[i].type \in types
             /\ \A j \in (i + 1)..Len(list) : list[j].type \notin types
    ELSE 0

\* addChapter as a plain push to the end of the list
addChapterAppend(list, chapter) == Append(list, chapter)

\* store.addChapter: the append rule of the Structurer
addChapter(list, chapter) ==
    IF chapter.type = "frontmatter" THEN InsertAt(list, LastOf(list, {"frontmatter"}), chapter)
    ELSE IF chapter.type = "chapter"
         THEN InsertAt(list, LastOf(list, {"frontmatter", "chapter"}), chapter)
    ELSE Append(list, chapter)

IsPermutation(newList, list) ==
    /\ Len(newList) = Len(list)
    /\ NoDuplicates(Ids(newList))
    /\ Range(Ids(newList)) = Range(Ids(list))

\* store.reorderChapters: the list in the given order, or InvalidReorder and
\* no change when the ids given are not a permutation of the ids stored
reorderChapters(list, newList) ==
    IF IsPermutation(newList, list)
    THEN [chapters |-> newList, error |-> "none"]
    ELSE [chapters |-> list, error |-> "InvalidReorder"]

\* chapters.findIndex(chapter => chapter.id === id): 0-based, -1 when absent
findIndex(list, id) ==
    IF \E i \in 1..Len(list) : list[i].id = id
    THEN (CHOOSE i \in 1..Len(list) :
              list[i].id = id /\ \A j \in 1..(i - 1) : list[j].id # id) - 1
    ELSE -1

\* the start index Array.prototype.splice uses for an array of length n
SpliceStart(n, start) ==
    IF start < 0 THEN (IF n + start < 0 THEN 0 ELSE n + start)
    ELSE IF start > n THEN n ELSE start

\* arrayMove as an exchange of the two elements
arrayMoveSwap(array, from, to) ==
    IF from < 0 \/ to < 0 THEN array
    ELSE [i \in 1..Len(array) |->
             IF i = from + 1 THEN array[to + 1]
             ELSE IF i = to + 1 THEN array[from + 1]
             ELSE array[i]]

\* arrayMove that gives the moved chapter the type of the chapter it is dropped on
arrayMoveRetype(array, from, to) ==
    IF from < 0 \/ to < 0 THEN array
    ELSE InsertAt(RemoveAt(array, from + 1), to,
                  [array[from + 1] EXCEPT !.type = array[to + 1].type])

\* arrayMove of @dnd-kit/sortable, indices 0-based:
\*   newArray.splice(to < 0 ? newArray.length + to : to, 0, newArray.splice(from, 1)[0])
\* the first argument is evaluated before the element is taken out
arrayMove(array, from, to) ==
    LET n       == Len(array)
        toIndex == IF to < 0 THEN n + to ELSE to
        start   == SpliceStart(n, from)
        item    == IF start < n THEN array[start + 1] ELSE Undefined
        rest    == IF start < n
                   THEN SubSeq(array, 1, start) \o SubSeq(array, start + 2, n)
                   ELSE array
    IN  InsertAt(rest, SpliceStart(Len(rest), toIndex), item)

\* the chapter object a handler passes to addChapter
NewChapter(id, title, content, type, subChapters) ==
    [id |-> id, title |-> title, content |-> content, images |-> <<>>,
     type |-> type, indentation |-> 0, lineSpacing |-> "1.5",
     subChapters |-> subChapters]

defaultTitles(type) ==
    CASE type = "frontmatter" -> TITLE_KATA_PENGANTAR
      [] type = "chapter"     -> TITLE_BAB_BARU
      [] type = "backmatter"  -> TITLE_PENUTUP

Types == {"frontmatter", "chapter", "backmatter"}

\* the chapters of a type taken as one run of the list, from the first of
\* the type to the last
filterTypeSlice(list, type) ==
    LET at == {i \in 1..Len(list) : list[i].type = type}
    IN  IF at = {} THEN <<>>
        ELSE SubSeq(list, CHOOSE i \in at : \A j \in at : i <= j,
                          CHOOSE i \in at : \A j \in at : j <= i)

\* chapters.filter(ch => ch.type === type)
RECURSIVE filterType(_, _)
filterType(list, type) ==
    IF list = <<>> THEN <<>>
    ELSE (IF Head(list).type = type THEN <<Head(list)>> ELSE <<>>)
             \o filterType(Tail(list), type)

frontmatterChapters(list) == filterType(list, "frontmatter")
mainChapters(list) == filterType(list, "chapter")
backmatterChapters(list) == filterType(list, "backmatter")

\* the chapter objects handed to ChapterItem, in render order; a main chapter
\* is a copy with pageNumber: index + 1
renderFrontmatter(list) == frontmatterChapters(list)

\* the page number taken from the index in the whole list
renderMainStoreIndex(list) ==
    [i \in 1..Len(mainChapters(list)) |->
        [chapter |-> mainChapters(list)[i],
         pageNumber |-> CHOOSE p \in 1..Len(list) : list[p] = mainChapters(list)[i]]]

renderMain(list) ==
    [i \in 1..Len(mainChapters(list)) |->
        [chapter |-> mainChapters(list)[i], pageNumber |-> (i - 1) + 1]]
renderBackmatter(list) == backmatterChapters(list)

\* the chapters of the ChapterItems in the order they are rendered: the three
\* maps of the SortableContext, one after the other
render(list) ==
    renderFrontmatter(list)
        \o [i \in 1..Len(renderMain(list)) |-> renderMain(list)[i].chapter]
        \o renderBackmatter(list)

(* ------------------------------------------------------------------ *)
(* Uploaded files                                                       *)
(* ------------------------------------------------------------------ *)

\* a File of the upload: webkitRelativePath, name (its last segment), and the
\* text file.text() resolves to
File(path, text) ==
    [webkitRelativePath |-> path, name |-> split(path)[Len(split(path))], text |-> text]

DIR_ROOT == <<"r", "/">>
DIR_BAB3 == DIR_ROOT \o <<"B", "A", "B", " ", "3", " ", "-", " ", "A", "w", "a", "l", "/">>
DIR_BAB1 == DIR_ROOT \o <<"B", "A", "B", " ", "1", " ", "-", " ", "Y", "/">>
DIR_BAB3Z == DIR_ROOT \o <<"x", "B", "A", "B", " ", "0", "3", " ", "-", " ", "Z", "/">>
DIR_MISC == DIR_ROOT \o <<"m", "i", "s", "c", "/">>

\* "r/BAB 3 - Awal/3.1 Pembuka.txt"
F_Pembuka == File(DIR_BAB3 \o <<"3", ".", "1", " ", "P", "e", "m", "b", "u", "k", "a">> \o STR_TXT, "pembuka")
\* "r/BAB 3 - Awal/3.2 Lanjutan.txt"
F_Lanjutan == File(DIR_BAB3 \o <<"3", ".", "2", " ", "L", "a", "n", "j", "u", "t", "a", "n">> \o STR_TXT, "lanjutan")
\* "r/BAB 3 - Awal/notes.md": no sub-chapter file
F_Notes == File(DIR_BAB3 \o <<"n", "o", "t", "e", "s", ".", "m", "d">>, "notes")
\* "r/BAB 1 - Y/1.1 c.txt"
F_C == File(DIR_BAB1 \o <<"1", ".", "1", " ", "c">> \o STR_TXT, "c")
\* "r/BAB 1 - Y/PENUTUP.txt": the back-matter marker, in upper case, in a chapter folder
F_Penutup == File(DIR_BAB1 \o <<"P", "E", "N", "U", "T", "U", "P">> \o STR_TXT, "penutup")
\* "r/xBAB 03 - Z/3.3 e.txt": a second folder whose number is 3
F_E == File(DIR_BAB3Z \o <<"3", ".", "3", " ", "e">> \o STR_TXT, "e")
\* "r/misc/1.1 d.txt": a sub-chapter file in a folder that is no chapter folder
F_D == File(DIR_MISC \o <<"1", ".", "1", " ", "d">> \o STR_TXT, "d")
\* "r/Kata Pengantar Penulis.txt": the front-matter marker, at the root
F_Kata == File(DIR_ROOT \o TITLE_KATA_PENGANTAR \o <<" ", "P", "e", "n", "u", "l", "i", "s">> \o STR_TXT, "kata")
\* "r/misc/kata pengantar penutup.txt": a file with both markers
F_Both == File(DIR_MISC \o STR_KATA_PENGANTAR \o <<" ">> \o STR_PENUTUP \o STR_TXT, "both")
\* "r/BAB 1 - Y/1.2 Penutup.txt": a sub-chapter file with the back-matter marker
F_SubPenutup == File(DIR_BAB1 \o <<"1", ".", "2", " ">> \o TITLE_PENUTUP \o STR_TXT, "subpenutup")
\* "r/BAB 7 - 7.1 x.txt": a file at the root whose name has the form of a chapter folder
F_RootBab == File(DIR_ROOT \o <<"B", "A", "B", " ", "7", " ", "-", " ", "7", ".", "1", " ", "x">> \o STR_TXT, "rootbab")
\* "penutup 2.txt" with an empty webkitRelativePath
F_Loose == [webkitRelativePath |-> <<>>,
            name |-> STR_PENUTUP \o <<" ", "2">> \o STR_TXT, text |-> "loose"]

FilePool == {F_Pembuka, F_Lanjutan, F_Notes, F_C, F_Penutup, F_E, F_D,
             F_Kata, F_Both, F_SubPenutup, F_RootBab, F_Loose}

\* the sequences of at most n distinct files of pool
RECURSIVE Batches(_, _)
Batches(pool, n) ==
    IF n = 0 THEN {<<>>}
    ELSE LET shorter == Batches(pool, n - 1)
         IN  shorter \cup {Append(b, f) : b \in {c \in shorter : Len(c) = n - 1},
                                           f \in pool}

DistinctBatches(pool, n) == {b \in Batches(pool, n) : NoDuplicates(b)}

(* ------------------------------------------------------------------ *)
(* handleBulkUpload                                                     *)
(* ------------------------------------------------------------------ *)

\* the chapter number of a folder name, -1 when it is no chapter folder
FolderNumber(folder) ==
    IF chapterMatch(folder).matched THEN parseInt(chapterMatch(folder).g1) ELSE -1

\* the groups keyed by chapter number: a folder whose number has been met
\* joins the group of the folder met first
RECURSIVE fileGroupsByNumber(_)
fileGroupsByNumber(files) ==
    IF files = <<>> THEN <<>>
    ELSE LET before == fileGroupsByNumber(SubSeq(files, 1, Len(files) - 1))
             file   == files[Len(files)]
             parts  == split(file.webkitRelativePath)
             Same(k) == \/ before[k].folder = parts[2]
                        \/ /\ FolderNumber(parts[2]) >= 0
                           /\ FolderNumber(before[k].folder) = FolderNumber(parts[2])
         IN  IF Len(parts) < 2 THEN before
             ELSE IF \E k \in 1..Len(before) : Same(k)
                  THEN [k \in 1..Len(before) |->
                           IF Same(k)
                           THEN [before[k] EXCEPT !.files = Append(@, file)]
                           ELSE before[k]]
                  ELSE Append(before, [folder |-> parts[2], files |-> <<file>>])

\* fileGroups after the grouping loop: the Map as the sequence of its entries
\* [folder, files] in insertion order
RECURSIVE fileGroups(_)
fileGroups(files) ==
    IF files = <<>> THEN <<>>
    ELSE LET before == fileGroups(SubSeq(files, 1, Len(files) - 1))
             file   == files[Len(files)]
             parts  == split(file.webkitRelativePath)
         IN  IF Len(parts) < 2 THEN before
             ELSE IF \E k \in 1..Len(before) : before[k].folder = parts[2]
                  THEN [k \in 1..Len(before) |->
                           IF before[k].folder = parts[2]
                           THEN [before[k] EXCEPT !.files = Append(@, file)]
                           ELSE before[k]]
                  ELSE Append(before, [folder |-> parts[2], files |-> <<file>>])

\* files.find(file => file.name.toLowerCase().includes(marker)): <<file>> for
\* the first such file, <<>> for undefined
find(files, marker) ==
    IF \E i \in 1..Len(files) : includes(toLowerCase(files[i].name), marker)
    THEN <<files[CHOOSE i \in 1..Len(files) :
                /\ includes(toLowerCase(files[i].name), marker)
                /\ \A j \in 1..(i - 1) : ~includes(toLowerCase(files[j].name), marker)]>>
    ELSE <<>>

frontmatterFile(files) == find(files, STR_KATA_PENGANTAR)
backmatterFile(files) == find(files, STR_PENUTUP)

\* sorted with x put in: after every element that does not compare greater (the sort is stable)
RECURSIVE InsertSorted(_, _)
InsertSorted(sorted, x) ==
    IF sorted = <<>> THEN <<x>>
    ELSE IF localeCompare(sorted[Len(sorted)].name, x.name) <= 0 THEN Append(sorted, x)
    ELSE Append(InsertSorted(SubSeq(sorted, 1, Len(sorted) - 1), x), sorted[Len(sorted)])

\* the files left in the order of the batch
sortedFilesUnsorted(folderFiles) == folderFiles

\* folderFiles.sort((a, b) => a.name.localeCompare(b.name))
RECURSIVE sortedFiles(_)
sortedFiles(folderFiles) ==
    IF folderFiles = <<>> THEN <<>>
    ELSE InsertSorted(sortedFiles(SubSeq(folderFiles, 1, Len(folderFiles) - 1)),
                      folderFiles[Len(folderFiles)])

\* the check left out
hasSubChaptersAlways(subChapters) == TRUE

\* if (subChapters.length > 0)
hasSubChapters(subChapters) == Len(subChapters) > 0

\* the locals of one call of handleBulkUpload: pc is where it stands (at an
\* await while it is suspended), g and f index the folder and the file of the
\* two loops, created records the chapters it has passed to addChapter so far;
\* ImportIdle is the call before it has begun
ImportIdle ==
    [pc |-> "idle", files |-> <<>>, fileGroups |-> <<>>, g |-> 0, chapterId |-> 0,
     chapterTitle |-> <<>>, chapterNumber |-> 0, sortedFiles |-> <<>>, f |-> 0,
     subChapters |-> <<>>, created |-> <<>>]

\* the text that arrives is that of the first file of the batch, whichever
\* file the import waits for
AwaitedFirstOfBatch(i) == i.files[1]

\* the file whose text() a suspended import waits for
Awaited(i) ==
    CASE i.pc = "awaitFrontmatter" -> frontmatterFile(i.files)[1]
      [] i.pc = "awaitFile"        -> i.sortedFiles[i.f]
      [] i.pc = "awaitBackmatter"  -> backmatterFile(i.files)[1]

\* the import stores the list of its own chapters with the new one added, in
\* place of the list that is in the store
CallAddChapterOwnList(s, chapter) ==
    [s EXCEPT !.chapters = addChapter(s.imp.created, chapter),
              !.imp.created = Append(@, chapter)]

\* addChapter called by the import: the store's list changes and the call is recorded
CallAddChapter(s, chapter) ==
    [s EXCEPT !.chapters = addChapter(@, chapter),
              !.imp.created = Append(@, chapter)]

\* crypto.randomUUID() returns an id in use nowhere.  Ids are opaque, so the
\* id drawn is named by the least number that names no id in use.
Fresh(used) ==
    CHOOSE n \in 1..(Cardinality(used) + 1) :
        n \notin used /\ \A m \in 1..(n - 1) : m \in used

\* the import runs from where it stands to its next await, or to its end;
\* s = [imp, chapters, used], used the ids in use
RECURSIVE Run(_)
Run(s) ==
    LET i == s.imp IN
    CASE i.pc = "frontmatter" ->
           IF frontmatterFile(i.files) # <<>>
           THEN [s EXCEPT !.imp.pc = "awaitFrontmatter"]
           ELSE Run([s EXCEPT !.imp.pc = "groups", !.imp.g = 1])
      [] i.pc = "groups" ->
           IF i.g > Len(i.fileGroups)
           THEN Run([s EXCEPT !.imp.pc = "backmatter"])
           ELSE LET m == chapterMatch(i.fileGroups[i.g].folder)
                IN  IF ~m.matched
                    THEN Run([s EXCEPT !.imp.g = @ + 1])
                    ELSE Run([s EXCEPT !.imp.pc = "files",
                                       !.imp.chapterNumber = parseInt(m.g1),
                                       !.imp.chapterTitle = m.g2,
                                       !.imp.chapterId = Fresh(s.used),
                                       !.used = @ \cup {Fresh(s.used)},
                                       !.imp.subChapters = <<>>,
                                       !.imp.sortedFiles = sortedFiles(i.fileGroups[i.g].files),
                                       !.imp.f = 1])
      [] i.pc = "files" ->
           IF i.f > Len(i.sortedFiles)
           THEN LET t == [s EXCEPT !.imp.pc = "groups", !.imp.g = @ + 1]
                IN  IF hasSubChapters(i.subChapters)
                    THEN Run(CallAddChapter(t, NewChapter(i.chapterId, i.chapterTitle, "",
                                                          "chapter", i.subChapters)))
                    ELSE Run(t)
           ELSE IF subChapterMatch(i.sortedFiles[i.f].name).matched
                THEN [s EXCEPT !.imp.pc = "awaitFile"]
                ELSE Run([s EXCEPT !.imp.f = @ + 1])
      [] i.pc = "backmatter" ->
           IF backmatterFile(i.files) # <<>>
           THEN [s EXCEPT !.imp.pc = "awaitBackmatter"]
           ELSE [s EXCEPT !.imp.pc = "done"]
      [] OTHER -> s

\* the import resumes with the text its awaited file.text() resolved to
Resume(s, content) ==
    LET i == s.imp IN
    CASE i.pc = "awaitFrontmatter" ->
           Run([CallAddChapter(s, NewChapter(Fresh(s.used), TITLE_KATA_PENGANTAR, content,
                                             "frontmatter", <<>>))
                EXCEPT !.used = @ \cup {Fresh(s.used)}, !.imp.pc = "groups", !.imp.g = 1])
      [] i.pc = "awaitFile" ->
           Run([s EXCEPT !.imp.subChapters =
                             Append(@, [id |-> Fresh(s.used),
                                        title |-> subChapterMatch(i.sortedFiles[i.f].name).g2,
                                        content |-> content]),
                         !.used = @ \cup {Fresh(s.used)},
                         !.imp.pc = "files",
                         !.imp.f = @ + 1])
      [] i.pc = "awaitBackmatter" ->
           [CallAddChapter(s, NewChapter(Fresh(s.used), TITLE_PENUTUP, content,
                                         "backmatter", <<>>))
            EXCEPT !.imp.pc = "done"]

(* ------------------------------------------------------------------ *)
(* State and handlers                                                   *)
(* ------------------------------------------------------------------ *)

\* no handler adds to a list that holds MaxChapters chapters already
MaxChapters == 3
\* the longest batch of the interleaved specification
MaxUpload == 2
\* the longest batch of the import specification
MaxFiles == 3
\* the most calls of handleBulkUpload suspended at one time
MaxInFlight == 2

VARIABLES
    chapters,   \* the store's chapter list
    imports,    \* the calls of handleBulkUpload suspended at an await, each
                \* with its locals, in the order in which they began
    event       \* what the last event handled did

vars == <<chapters, imports, event>>

\* the ids a suspended call holds for the chapter it is building
HeldIds(i) ==
    IF i.pc = "awaitFile" THEN {i.chapterId} \cup Range(Ids(i.subChapters)) ELSE {}

\* the ids in use: those of the stored chapters and sub-chapters and those the
\* imports in flight hold
UsedIds ==
    Range(Ids(chapters))
        \cup UNION {Range(Ids(chapters[k].subChapters)) : k \in 1..Len(chapters)}
        \cup UNION {HeldIds(imports[k]) : k \in 1..Len(imports)}

\* an id taken from the length of the list
nextIdFromLength == Len(chapters) + 1

\* the id crypto.randomUUID() gives a handler
nextId == Fresh(UsedIds)

Init ==
    /\ chapters = <<>>
    /\ imports = <<>>
    /\ event = [op |-> "init", error |-> "none"]

handleAddChapter(type) ==
    /\ chapters' = addChapter(chapters, NewChapter(nextId, defaultTitles(type), "", type, <<>>))
    /\ event' = [op |-> "add", error |-> "none"]
    /\ UNCHANGED imports

\* active is <<id>>; over is <<id>>, or <<>> for null (over.id then throws a TypeError).
\* The chapters the handler closes over are those of the last render; the
\* component re-renders on every change of the store, so they are the store's.
handleDragEnd(active, over) ==
    /\ UNCHANGED imports
    /\ IF over = <<>>
       THEN /\ event' = [op |-> "drag", error |-> "TypeError"]
            /\ UNCHANGED chapters
       ELSE IF active[1] # over[1]
       THEN LET oldIndex == findIndex(chapters, active[1])
                newIndex == findIndex(chapters, over[1])
                result   == reorderChapters(chapters, arrayMove(chapters, oldIndex, newIndex))
            IN  /\ chapters' = result.chapters
                /\ event' = [op |-> "drag", error |-> result.error]
       ELSE /\ event' = [op |-> "drag", error |-> "none"]
            /\ UNCHANGED chapters

\* the state after the call at position k of imports (a call that begins:
\* k = Len(imports) + 1) has run to an await or to its end
Settle(s, k) ==
    /\ chapters' = s.chapters
    /\ IF s.imp.pc = "done"
       THEN /\ imports' = RemoveAt(imports, k)
            /\ event' = [op |-> "imported", error |-> "none",
                         files |-> s.imp.files, created |-> s.imp.created]
       ELSE /\ imports' = (IF k > Len(imports) THEN Append(imports, s.imp)
                           ELSE [imports EXCEPT ![k] = s.imp])
            /\ event' = [op |-> "reading", error |-> "none"]

\* The handler up to its first await (or to its end when it awaits nothing).
\* Nothing keeps the input from changing again while earlier calls are
\* suspended: the new call runs beside them.  The final reset of the input
\* element changes nothing modelled here.
handleBulkUpload(files) ==
    IF Len(files) = 0
    THEN /\ event' = [op |-> "imported", error |-> "none", files |-> files, created |-> <<>>]
         /\ UNCHANGED <<chapters, imports>>
    ELSE Settle(Run([imp |-> [ImportIdle EXCEPT !.pc = "frontmatter",
                                                !.files = files,
                                                !.fileGroups = fileGroups(files)],
                     chapters |-> chapters,
                     used |-> UsedIds]),
                Len(imports) + 1)

\* the file.text() that call k awaits resolves and the call goes on
FileRead(k) ==
    /\ k \in 1..Len(imports)
    /\ Settle(Resume([imp |-> imports[k], chapters |-> chapters, used |-> UsedIds],
                     Awaited(imports[k]).text),
              k)

\* the file.text() that call k awaits rejects: handleBulkUpload has no
\* try/catch and ends there, with what it has added so far left in the store
FileReadFails(k) ==
    /\ k \in 1..Len(imports)
    /\ imports' = RemoveAt(imports, k)
    /\ event' = [op |-> "importFailed", error |-> "rejected",
                 files |-> imports[k].files, created |-> imports[k].created]
    /\ UNCHANGED chapters

\* an id no chapter has: crypto.randomUUID() never issued it
AbsentId == 0

DragIds == Range(Ids(chapters)) \cup {AbsentId}

UploadPool == {F_Kata, F_Pembuka, F_Penutup}

\* the files of the calls in flight that have not given their chapter yet
RECURSIVE Pending(_)
Pending(calls) ==
    IF calls = <<>> THEN 0
    ELSE Len(Head(calls).files) - Len(Head(calls).created) + Pending(Tail(calls))

Next ==
    \/ \E type \in Types :
           Len(chapters) + Pending(imports) < MaxChapters
               /\ handleAddChapter(type)
    \/ \E a \in DragIds, o \in DragIds :
           handleDragEnd(<<a>>, <<o>>)
    \/ \E a \in DragIds :
           handleDragEnd(<<a>>, <<>>)
    \/ \E files \in DistinctBatches(UploadPool, MaxUpload) :
           /\ Len(imports) < MaxInFlight
           /\ Len(chapters) + Pending(imports) + Len(files) <= MaxChapters
           /\ handleBulkUpload(files)
    \/ \E k \in 1..Len(imports) : FileRead(k)
    \/ \E k \in 1..Len(imports) : FileReadFails(k)

Spec == Init /\ [][Next]_vars

\* manual adds and drags only
ListNext ==
    \/ \E type \in Types :
           Len(chapters) < MaxChapters /\ handleAddChapter(type)
    \/ \E a \in DragIds, o \in DragIds :
           handleDragEnd(<<a>>, <<o>>)
    \/ \E a \in DragIds :
           handleDragEnd(<<a>>, <<>>)

ListSpec == Init /\ [][ListNext]_vars

\* manual adds and imports only, interleaved
AppendNext ==
    \/ \E type \in Types :
           Len(chapters) + Pending(imports) < MaxChapters
               /\ handleAddChapter(type)
    \/ \E files \in DistinctBatches(UploadPool, MaxUpload) :
           /\ Len(imports) < MaxInFlight
           /\ Len(chapters) + Pending(imports) + Len(files) <= MaxChapters
           /\ handleBulkUpload(files)
    \/ \E k \in 1..Len(imports) : FileRead(k)
    \/ \E k \in 1..Len(imports) : FileReadFails(k)

AppendSpec == Init /\ [][AppendNext]_vars

\* one import of any batch into the empty list
ImportNext ==
    \/ /\ event.op = "init"
       /\ \E files \in DistinctBatches(FilePool, MaxFiles) : handleBulkUpload(files)
    \/ \E k \in 1..Len(imports) : FileRead(k)
    \/ \E k \in 1..Len(imports) : FileReadFails(k)

ImportSpec == Init /\ [][ImportNext]_vars

(* ------------------------------------------------------------------ *)
(* Properties                                                           *)
(* ------------------------------------------------------------------ *)

SegmentRank(type) ==
    CASE type = "frontmatter" -> 1
      [] type = "chapter"     -> 2
      [] type = "backmatter"  -> 3
      [] OTHER                -> 0

SegmentOrdered(list) ==
    \A i, j \in 1..Len(list) :
        SegmentRank(list[i].type) < SegmentRank(list[j].type) => i < j

CountOf(list, types) == Cardinality({i \in 1..Len(list) : list[i].type \in types})

\* C1: in every reachable state every frontmatter chapter is stored before
\* every chapter of type chapter, and every chapter of type chapter before
\* every backmatter chapter.
C1_SegmentOrderAlways == SegmentOrdered(chapters)

\* where a chapter of the given type must land in a segment-ordered list
LandingIndex(list, type) ==
    CASE type = "frontmatter" -> CountOf(list, {"frontmatter"}) + 1
      [] type = "chapter"     -> CountOf(list, {"frontmatter", "chapter"}) + 1
      [] type = "backmatter"  -> Len(list) + 1

\* C2: a step that adds a chapter (a manual add, or one add of a bulk import)
\* to a segment-ordered list leaves it segment-ordered: the chapters already
\* there keep their order, and the new one lands after the last chapter of its
\* own segment and before the first chapter of the next (a backmatter chapter
\* at the very end), hence after the chapters of its type added before it.
C2_AddKeepsSegments ==
    [][(SegmentOrdered(chapters) /\ Len(chapters') = Len(chapters) + 1) =>
         \E k \in 1..Len(chapters') :
             /\ chapters'[k].id \notin Range(Ids(chapters))
             /\ RemoveAt(chapters', k) = chapters
             /\ k = LandingIndex(chapters, chapters'[k].type)
             /\ SegmentOrdered(chapters')]_vars

\* an import has put a frontmatter chapter between a manually added
\* frontmatter chapter and a chapter of type chapter
C2_Witness ==
    /\ event.op = "imported"
    /\ Len(event.created) = 1
    /\ Len(chapters) = 3
    /\ chapters[2] = event.created[1]
    /\ chapters[1].type = "frontmatter"
    /\ chapters[2].type = "frontmatter"
    /\ chapters[3].type = "chapter"
    /\ chapters[1].id < chapters[2].id
    /\ chapters[3].id < chapters[2].id

\* the positions of the chapters of type chapter in the list
MainPositions(list) == {p \in 1..Len(list) : list[p].type = "chapter"}

\* C3: whatever the storage order, the chapters of type chapter at positions
\* p1 < ... < pk are rendered with the page numbers 1 .. k in that order, and
\* no frontmatter or backmatter chapter is rendered with a page number.
C3_PageNumbers ==
    LET r == renderMain(chapters)
        P == MainPositions(chapters)
    IN  /\ Len(r) = Cardinality(P)
        /\ \A p \in P :
               LET n == Cardinality({q \in P : q <= p})
               IN  r[n].chapter = chapters[p] /\ r[n].pageNumber = n
        /\ \A i \in 1..Len(renderFrontmatter(chapters)) :
               "pageNumber" \notin DOMAIN renderFrontmatter(chapters)[i]
        /\ \A i \in 1..Len(renderBackmatter(chapters)) :
               "pageNumber" \notin DOMAIN renderBackmatter(chapters)[i]

\* two chapters of type chapter stored with a frontmatter chapter between them
C3_Witness ==
    /\ Len(chapters) = 3
    /\ chapters[1].type = "chapter"
    /\ chapters[2].type = "frontmatter"
    /\ chapters[3].type = "chapter"
    /\ renderMain(chapters)[2].pageNumber = 2

\* C4: a drag whose active and over ids are both in the list stores a list
\* with exactly the ids it had, each once, the active chapter at the index the
\* over chapter had, and the other chapters in their previous order.
C4_DragIsBijection ==
    [][\A a, o \in Range(Ids(chapters)) :
           (a # o /\ handleDragEnd(<<a>>, <<o>>)) =>
               LET from == CHOOSE i \in 1..Len(chapters) : chapters[i].id = a
                   to   == CHOOSE i \in 1..Len(chapters) : chapters[i].id = o
               IN  /\ Len(chapters') = Len(chapters)
                   /\ \A c \in Range(chapters) :
                          Cardinality({i \in 1..Len(chapters') : chapters'[i] = c}) = 1
                   /\ chapters'[to] = chapters[from]
                   /\ RemoveAt(chapters', to) = RemoveAt(chapters, from)]_vars

\* the first of three chapters of one type has been dragged to the end
C4_Witness ==
    /\ event.op = "drag"
    /\ event.error = "none"
    /\ Len(chapters) = 3
    /\ \A i \in 1..3 : chapters[i].type = "chapter"
    /\ Ids(chapters) = <<2, 3, 1>>

\* the targets of a drag: an id, or null
DragTargets == {<<>>} \cup {<<o>> : o \in DragIds}

\* C5: a drag whose active or over id is not in the list, or whose over target
\* is null, fails with InvalidReorder and leaves the stored list exactly as it
\* was.  Stated here is what the failure must guarantee: the list is unchanged.
C5_InvalidDragRejected ==
    [][\A a \in DragIds : \A over \in DragTargets :
           (/\ handleDragEnd(<<a>>, over)
            /\ \/ over = <<>>
               \/ a \notin Range(Ids(chapters))
               \/ over[1] \notin Range(Ids(chapters)))
           => chapters' = chapters]_vars

AllSubChapters ==
    UNION {{[at |-> k, sub |-> j] : j \in 1..Len(chapters[k].subChapters)} :
               k \in 1..Len(chapters)}

\* C10: no two stored chapters have the same id, and no two stored
\* sub-chapters have the same id.
C10_UniqueIds ==
    /\ \A i, j \in 1..Len(chapters) : chapters[i].id = chapters[j].id => i = j
    /\ \A x, y \in AllSubChapters :
           chapters[x.at].subChapters[x.sub].id = chapters[y.at].subChapters[y.sub].id
               => x = y

\* the same batch has been imported twice: two chapters with one title, the
\* same sub-chapter titles, and distinct ids
C10_Witness ==
    /\ event.op = "imported"
    /\ Len(chapters) = 2
    /\ chapters[1].type = "chapter"
    /\ chapters[1].title = chapters[2].title
    /\ Len(chapters[1].subChapters) = 1
    /\ chapters[1].subChapters[1].title = chapters[2].subChapters[1].title
    /\ chapters[1].id # chapters[2].id
    /\ chapters[1].subChapters[1].id # chapters[2].subChapters[1].id

\* C12: no step changes a stored chapter other than its position: after an
\* add, a drag, or a stretch of an import, every chapter that was in the list
\* is still there with the id, type, title, content and subChapters (in their
\* order) it had; and no stored chapter carries the pageNumber the render
\* derives, which exists on the rendered copies of the main chapters only.
C12_StoredChaptersUntouched ==
    [][/\ \A k \in 1..Len(chapters) :
              \E j \in 1..Len(chapters') :
                  /\ chapters'[j].id = chapters[k].id
                  /\ chapters'[j].type = chapters[k].type
                  /\ chapters'[j].title = chapters[k].title
                  /\ chapters'[j].content = chapters[k].content
                  /\ chapters'[j].subChapters = chapters[k].subChapters
       /\ \A j \in 1..Len(chapters') : "pageNumber" \notin DOMAIN chapters'[j]
       /\ \A i \in 1..Len(renderMain(chapters')) :
              /\ "pageNumber" \in DOMAIN renderMain(chapters')[i]
              /\ "pageNumber" \notin DOMAIN renderMain(chapters')[i].chapter]_vars

\* an imported chapter with its sub-chapter has been dragged in front of a
\* manually added frontmatter chapter
C12_Witness ==
    /\ event.op = "drag"
    /\ event.error = "none"
    /\ Len(chapters) = 2
    /\ chapters[1].type = "chapter"
    /\ Len(chapters[1].subChapters) = 1
    /\ chapters[1].subChapters[1].content = "pembuka"
    /\ chapters[2].type = "frontmatter"
    /\ chapters[2].content = ""

\* C17: every operation runs to its end before the next event is handled.
\* An import that has added a chapter and waits for a read has a chapter still
\* to add (the one the awaited file goes into), so from its first to its last
\* chapter no click on add and no end of a drag is handled, and no other
\* import begins.
C17_ImportUninterrupted ==
    [][(\E k \in 1..Len(imports) : imports[k].created # <<>>) =>
          /\ event'.op \notin {"add", "drag"}
          /\ Len(imports') <= Len(imports)]_vars

\* the position of a stored chapter in the list
StoredAt(list, chapter) == CHOOSE p \in 1..Len(list) : list[p] = chapter

\* C18: whatever the order of the stored list, the rendered sequence shows
\* every stored chapter exactly once, the frontmatter chapters first, then
\* the chapters of type chapter, then the backmatter chapters, and two
\* chapters of one type in the order in which they are stored.
C18_DisplayedBySegment ==
    LET shown == render(chapters)
    IN  /\ Len(shown) = Len(chapters)
        /\ \A k \in 1..Len(chapters) :
               Cardinality({i \in 1..Len(shown) : shown[i] = chapters[k]}) = 1
        /\ \A i, j \in 1..Len(shown) :
               i < j =>
                   /\ SegmentRank(shown[i].type) <= SegmentRank(shown[j].type)
                   /\ SegmentRank(shown[i].type) >= 1
                   /\ shown[i].type = shown[j].type =>
                          StoredAt(chapters, shown[i]) < StoredAt(chapters, shown[j])

\* drags have left a backmatter chapter first, a frontmatter chapter last and
\* a chapter of type chapter between them: the render shows them reversed
C18_Witness ==
    /\ event.op = "drag"
    /\ Len(chapters) = 3
    /\ chapters[1].type = "backmatter"
    /\ chapters[2].type = "chapter"
    /\ chapters[3].type = "frontmatter"
    /\ render(chapters) = <<chapters[3], chapters[2], chapters[1]>>

\* the chapters call k of imports passes to addChapter in a step in which
\* its read resolves
NewOf(k) ==
    LET after == IF Len(imports') < Len(imports) THEN event'.created
                 ELSE imports'[k].created
    IN  SubSeq(after, Len(imports[k].created) + 1, Len(after))

Once(list, c) == Cardinality({j \in 1..Len(list) : list[j] = c}) = 1

\* C19: no chapter is lost while imports are in flight.  At every step from
\* the start of an import to its end (its own stretches, those of an import
\* beside it, and the adds and drags handled while it waits for a read) the
\* list afterwards holds, each exactly once, every chapter it held before and
\* every chapter an import added in the step, and besides these only the
\* chapter of a manual add.  So the list at the end holds the chapters of the
\* start, the manual ones and the imported ones, each once.
C19_NoChapterLost ==
    [][(imports # <<>> \/ imports' # <<>>) =>
          /\ \A c \in Range(chapters) : Once(chapters', c)
          /\ \A k \in 1..Len(imports) :
                 FileRead(k) =>
                     /\ \A c \in Range(NewOf(k)) : Once(chapters', c)
                     /\ Len(chapters') = Len(chapters) + Len(NewOf(k))
          /\ (~\E k \in 1..Len(imports) : FileRead(k)) =>
                 Len(chapters') = Len(chapters) + (IF event'.op = "add" THEN 1 ELSE 0)]_vars

\* an import of a frontmatter and a backmatter file has finished; between
\* its two chapters (ids 1 and 3) a chapter was added by hand (id 2) and the
\* frontmatter chapter was dragged behind it
C19_Witness ==
    /\ event.op = "imported"
    /\ Ids(event.created) = <<1, 3>>
    /\ Ids(chapters) = <<2, 1, 3>>
    /\ chapters[1].type = "chapter"
    /\ chapters[2] = event.created[1]
    /\ chapters[3] = event.created[2]

(* ------------------------------------------------------------------ *)
(* Properties of one import                                             *)
(* ------------------------------------------------------------------ *)

\* the imports in flight and the one that has just ended, each as its batch
\* and the chapters it has created
ImportsSeen ==
    {[files |-> imports[k].files, created |-> imports[k].created] : k \in 1..Len(imports)}
        \cup (IF event.op \in {"imported", "importFailed"}
              THEN {[files |-> event.files, created |-> event.created]} ELSE {})

\* the file of the batch with the given text (the texts of the pool differ)
FileWithText(files, text) == CHOOSE f \in Range(files) : f.text = text

HasFolder(file) == Len(split(file.webkitRelativePath)) >= 2

FolderOf(file) == split(file.webkitRelativePath)[2]

\* the folders of the batch that are chapter folders holding a sub-chapter file
ValidFolders(files) ==
    {FolderOf(f) : f \in {x \in Range(files) :
                              /\ HasFolder(x)
                              /\ chapterMatch(FolderOf(x)).matched
                              /\ subChapterMatch(x.name).matched}}

\* the folder a created chapter of type chapter was made from, by the file of
\* its first sub-chapter
SourceFolder(files, chapter) == FolderOf(FileWithText(files, chapter.subChapters[1].content))

BodyIndexes(created) == {k \in 1..Len(created) : created[k].type = "chapter"}

\* C6: the chapters of a finished import were created frontmatter first, then
\* the chapter folders in ascending order of the number in their names, then
\* backmatter.
C6_CreatedInNumberOrder ==
    event.op = "imported" =>
        \A i, j \in 1..Len(event.created) :
            i < j =>
                /\ SegmentRank(event.created[i].type) <= SegmentRank(event.created[j].type)
                /\ (i \in BodyIndexes(event.created) /\ j \in BodyIndexes(event.created)) =>
                       parseInt(chapterMatch(SourceFolder(event.files, event.created[i])).g1)
                           <= parseInt(chapterMatch(SourceFolder(event.files, event.created[j])).g1)

\* C7: every chapter of type chapter an import creates has a sub-chapter, and
\* each of its sub-chapters is a file that matches the sub-chapter pattern and
\* lies in a folder that matches the chapter pattern and gave the chapter its
\* title; so a folder that does not match, or has no matching file, gives none.
C7_NoEmptyContainer ==
    \A i \in ImportsSeen :
        \A k \in BodyIndexes(i.created) :
            LET ch == i.created[k]
            IN  /\ Len(ch.subChapters) >= 1
                /\ \A n \in 1..Len(ch.subChapters) :
                       \E f \in Range(i.files) :
                           /\ f.text = ch.subChapters[n].content
                           /\ HasFolder(f)
                           /\ chapterMatch(FolderOf(f)).matched
                           /\ chapterMatch(FolderOf(f)).g2 = ch.title
                           /\ subChapterMatch(f.name).matched

\* a chapter folder with no sub-chapter file and a sub-chapter file in a folder
\* that is no chapter folder gave nothing; the one valid folder gave a chapter
C7_Witness ==
    /\ event.op = "imported"
    /\ event.files = <<F_Notes, F_D, F_C>>
    /\ Len(event.created) = 1
    /\ event.created[1].title = <<"Y">>
    /\ Len(chapters) = 1

\* the position of file f in the batch
BatchIndex(files, f) == CHOOSE i \in 1..Len(files) : files[i] = f

\* C8: a finished import has created exactly one chapter for every chapter
\* folder that holds a sub-chapter file, and no other chapter of type chapter:
\* its title is the title in the folder name, its content is empty, and its
\* sub-chapters are the matching files of the folder, one each, with the title
\* in the file name and the text of the file, in the order of the file names.
C8_ChapterPerFolder ==
    event.op = "imported" =>
        LET created == event.created
            files   == event.files
            body    == BodyIndexes(created)
        IN  /\ Cardinality(body) = Cardinality(ValidFolders(files))
            /\ \A folder \in ValidFolders(files) :
                   LET mine    == {k \in body : SourceFolder(files, created[k]) = folder}
                       members == {f \in Range(files) :
                                      /\ HasFolder(f)
                                      /\ FolderOf(f) = folder
                                      /\ subChapterMatch(f.name).matched}
                   IN  /\ Cardinality(mine) = 1
                       /\ \A k \in mine :
                              LET subs == created[k].subChapters
                                  src  == [n \in 1..Len(subs) |-> FileWithText(files, subs[n].content)]
                              IN  /\ created[k].title = chapterMatch(folder).g2
                                  /\ created[k].content = ""
                                  /\ Len(subs) = Cardinality(members)
                                  /\ Range(src) = members
                                  /\ \A n \in 1..Len(subs) :
                                         subs[n].title = subChapterMatch(src[n].name).g2
                                  /\ \A n, m \in 1..Len(subs) :
                                         n < m =>
                                             \/ localeCompare(src[n].name, src[m].name) < 0
                                             \/ /\ localeCompare(src[n].name, src[m].name) = 0
                                                /\ BatchIndex(files, src[n]) < BatchIndex(files, src[m])

\* the folder "BAB 3 - Awal" uploaded as 3.2, notes.md, 3.1
C8_Witness ==
    /\ event.op = "imported"
    /\ event.files = <<F_Lanjutan, F_Notes, F_Pembuka>>
    /\ Len(event.created) = 1
    /\ event.created[1].title = <<"A", "w", "a", "l">>
    /\ Len(event.created[1].subChapters) = 2
    /\ event.created[1].subChapters[1].title = <<"P", "e", "m", "b", "u", "k", "a">>
    /\ event.created[1].subChapters[2].content = "lanjutan"

\* name contains the marker, letter case ignored
HasMarker(name, marker) ==
    \E i \in 1..Len(name) :
        \A k \in 1..Len(marker) :
            /\ i + k - 1 <= Len(name)
            /\ LowerChar(name[i + k - 1]) = marker[k]

\* the chapters of the given type in created are: none when no file of the
\* batch has the marker, else one, without sub-chapters, whose content is the
\* text of a file that has it
OneStandalone(created, files, type, marker) ==
    LET mine    == {k \in 1..Len(created) : created[k].type = type}
        sources == {f \in Range(files) : HasMarker(f.name, marker)}
    IN  /\ Cardinality(mine) = (IF sources = {} THEN 0 ELSE 1)
        /\ \A k \in mine :
               /\ created[k].subChapters = <<>>
               /\ \E f \in sources : created[k].content = f.text

\* C9: a finished import has created one frontmatter chapter if a file name of
\* the batch holds the front-matter marker in any letter case and in any
\* folder, else none, and likewise for backmatter; such a chapter has no
\* sub-chapters and the text of a marked file as content; no error is raised.
C9_OneFrontOneBack ==
    event.op = "imported" =>
        /\ OneStandalone(event.created, event.files, "frontmatter", STR_KATA_PENGANTAR)
        /\ OneStandalone(event.created, event.files, "backmatter", STR_PENUTUP)
        /\ event.error = "none"

\* "PENUTUP.txt" in a chapter folder and "Kata Pengantar Penulis.txt" at the root
C9_Witness ==
    /\ event.op = "imported"
    /\ event.files = <<F_C, F_Penutup, F_Kata>>
    /\ Len(event.created) = 3
    /\ event.created[1].type = "frontmatter"
    /\ event.created[1].content = "kata"
    /\ event.created[2].type = "chapter"
    /\ event.created[3].type = "backmatter"
    /\ event.created[3].content = "penutup"

(* ------------------------------------------------------------------ *)
(* The order of one import                                              *)
(* ------------------------------------------------------------------ *)

\* a created chapter without its ids
Shape(chapter) ==
    [type |-> chapter.type, title |-> chapter.title, content |-> chapter.content,
     subChapters |-> [n \in 1..Len(chapter.subChapters) |->
                         [title |-> chapter.subChapters[n].title,
                          content |-> chapter.subChapters[n].content]]]

Shapes(created) == [k \in 1..Len(created) |-> Shape(created[k])]

\* the chapter of one folder, as a sequence of one or no chapter: m is the
\* match of the folder name, members are its sub-chapter files in order
ExpectedChapter(m, members) ==
    IF m.matched /\ members # <<>>
    THEN <<[type |-> "chapter", title |-> m.g2, content |-> "",
            subChapters |-> [n \in 1..Len(members) |->
                                [title |-> subChapterMatch(members[n].name).g2,
                                 content |-> members[n].text]]]>>
    ELSE <<>>

\* file i of the batch is the first of its folder
FirstOfFolder(files, i) ==
    /\ HasFolder(files[i])
    /\ \A j \in 1..(i - 1) :
           ~(HasFolder(files[j]) /\ FolderOf(files[j]) = FolderOf(files[i]))

\* the files of the batch in the folder, in the order of the batch
InFolder(files, folder) ==
    SelectSeq(files, LAMBDA f : HasFolder(f) /\ FolderOf(f) = folder)

\* the chapters of type chapter a batch stands for, as a function of the
\* batch: its folders in the order of first encounter (here those first met at
\* file i or later), each with its matching files in the order of their names
RECURSIVE ExpectedBody(_, _)
ExpectedBody(files, i) ==
    IF i > Len(files) THEN <<>>
    ELSE (IF FirstOfFolder(files, i)
          THEN ExpectedChapter(chapterMatch(FolderOf(files[i])),
                               SelectSeq(sortedFiles(InFolder(files, FolderOf(files[i]))),
                                         LAMBDA f : subChapterMatch(f.name).matched))
          ELSE <<>>)
             \o ExpectedBody(files, i + 1)

\* what a batch stands for: a sequence fixed by the order, paths, names and
\* texts of its files, with nothing of the state in it
Expected(files) ==
    (IF frontmatterFile(files) # <<>>
     THEN <<[type |-> "frontmatter", title |-> TITLE_KATA_PENGANTAR,
             content |-> frontmatterFile(files)[1].text, subChapters |-> <<>>]>>
     ELSE <<>>)
    \o ExpectedBody(files, 1)
    \o (IF backmatterFile(files) # <<>>
        THEN <<[type |-> "backmatter", title |-> TITLE_PENUTUP,
                content |-> backmatterFile(files)[1].text, subChapters |-> <<>>]>>
        ELSE <<>>)

\* C13: the chapters a finished import has added, in the order it added them
\* and with their sub-chapters in their order, are the one sequence its batch
\* stands for: whenever the reads complete, the order is that fixed by the
\* batch.
C13_OrderFixedByBatch ==
    event.op = "imported" => Shapes(event.created) = Expected(event.files)

\* three reads have completed one after the other: the frontmatter file, met
\* second in the batch, and the two files of a folder met in reverse order
C13_Witness ==
    /\ event.op = "imported"
    /\ event.files = <<F_Lanjutan, F_Kata, F_Pembuka>>
    /\ Len(event.created) = 2
    /\ event.created[1].content = "kata"
    /\ event.created[2].subChapters[1].content = "pembuka"
    /\ event.created[2].subChapters[2].content = "lanjutan"

\* the position in the batch of the first file of the folder
FirstMet(files, folder) ==
    CHOOSE i \in 1..Len(files) :
        /\ HasFolder(files[i]) /\ FolderOf(files[i]) = folder
        /\ \A j \in 1..(i - 1) : ~(HasFolder(files[j]) /\ FolderOf(files[j]) = folder)

\* C15: when two different folders of the batch carry the same chapter number
\* and each holds a sub-chapter file, a finished import has created one chapter
\* for each of them, and the chapter of the folder met first in the batch was
\* created first.
C15_SameNumberBothKept ==
    event.op = "imported" =>
        \A A, B \in ValidFolders(event.files) :
            (A # B /\ FolderNumber(A) = FolderNumber(B)) =>
                LET body == BodyIndexes(event.created)
                    ofA  == {k \in body : SourceFolder(event.files, event.created[k]) = A}
                    ofB  == {k \in body : SourceFolder(event.files, event.created[k]) = B}
                IN  /\ Cardinality(ofA) = 1
                    /\ Cardinality(ofB) = 1
                    /\ \A ka \in ofA, kb \in ofB :
                           /\ event.created[ka].title = chapterMatch(A).g2
                           /\ event.created[kb].title = chapterMatch(B).g2
                           /\ FirstMet(event.files, A) < FirstMet(event.files, B) => ka < kb

\* "xBAB 03 - Z" met before "BAB 3 - Awal", which has two files: both carry
\* the number 3, and both have their chapter, Z first
C15_Witness ==
    /\ event.op = "imported"
    /\ event.files = <<F_E, F_Pembuka, F_Lanjutan>>
    /\ Len(event.created) = 2
    /\ event.created[1].title = <<"Z">>
    /\ event.created[2].title = <<"A", "w", "a", "l">>
    /\ Len(event.created[2].subChapters) = 2

(* ------------------------------------------------------------------ *)
(* Failures and reports of one import                                   *)
(* ------------------------------------------------------------------ *)

\* C11: an import that ends because the read of a file failed reports an
\* ImportIOError (the error that names the path of the file), and has created
\* no chapter and no sub-chapter whose content is not the text of a file of
\* the batch (nothing is made up for the file that could not be read).
C11_ReadFailureReported ==
    event.op = "importFailed" =>
        /\ event.error = "ImportIOError"
        /\ \A k \in 1..Len(event.created) :
               /\ event.created[k].type # "chapter" =>
                      \E f \in Range(event.files) : f.text = event.created[k].content
               /\ \A n \in 1..Len(event.created[k].subChapters) :
                      \E f \in Range(event.files) :
                          f.text = event.created[k].subChapters[n].content

\* the files of the batch that lie in a folder and are passed over: the name
\* of the folder fails the chapter pattern, or the name of the file fails the
\* sub-chapter pattern
SkippedItems(files) ==
    {f \in Range(files) :
        /\ Len(split(f.webkitRelativePath)) >= 3
        /\ \/ ~chapterMatch(FolderOf(f)).matched
           \/ ~subChapterMatch(f.name).matched}

\* C14: an import whose batch holds an item that fails its pattern goes on to
\* its end and reports a skip count that is not zero.
C14_SkipsCounted ==
    (event.op = "imported" /\ SkippedItems(event.files) # {}) =>
        /\ "skipped" \in DOMAIN event
        /\ event.skipped > 0

\* C16: an import that ends because the read of a file failed leaves none of
\* its chapters in the list.  The import here starts on the empty list, so the
\* list before it started is the empty list.
C16_FailedImportLeavesNothing ==
    event.op = "importFailed" =>
        /\ chapters = <<>>
        /\ \A k \in 1..Len(event.created) :
               \A j \in 1..Len(chapters) : chapters[j].id # event.created[k].id

\* the units made from the text of file f: frontmatter and backmatter
\* chapters, and sub-chapters of chapters of type chapter
UnitsOf(created, f) ==
    {<<k, 0>> : k \in {i \in 1..Len(created) :
                          created[i].type # "chapter" /\ created[i].content = f.text}}
        \cup UNION {{<<k, n>> : n \in {m \in 1..Len(created[k].subChapters) :
                                          created[k].subChapters[m].content = f.text}} :
                       k \in 1..Len(created)}

\* C20: in a finished import every file of the batch has given its text to at
\* most one unit: not to the frontmatter and the backmatter chapter both, and
\* not to a sub-chapter and to the frontmatter or backmatter chapter.
C20_FileUsedOnce ==
    event.op = "imported" =>
        \A f \in Range(event.files) : Cardinality(UnitsOf(event.created, f)) <= 1

====
